---- MODULE Spec2Model ----
(***************************************************************************)
(* Model of the Spotify widget extension (src/extension.js, the second,    *)
(* current set of definitions, lines 358-802): the PKCE authenticator      *)
(* (authenticateSpotify, handleAuthCallback, completeAuthentication,       *)
(* exchangeCodeForToken), the poller (getCurrentTrack, spotifyApiRequest), *)
(* the panel / timer life cycle (createOrShowSpotifyWidget) and the media  *)
(* keys (sendSpotifyCommand).                                              *)
(*                                                                         *)
(* JavaScript runs one macrotask at a time: an action of this model is the *)
(* code that runs between two points where a handler really waits (a       *)
(* network response, a storage write, a user prompt, a timer).             *)
(* The file also holds an older copy of the program (lines 1-356); the     *)
(* later definitions are the ones in force and the ones modelled.          *)
(* null, undefined and the other falsy values are one value per type:      *)
(* NoToken for a token, NoExpiry (0) for an instant, NoVerifier (0) for a  *)
(* verifier.  Instants are milliseconds, as Date.now() gives them.         *)
(*                                                                         *)
(* Two functions are also checked on their own, over bounded sets of       *)
(* arguments: the mapping of a 200 body to a snapshot in getCurrentTrack   *)
(* (SpecSnapshot) and generateCodeChallenge (SpecChallenge).               *)
(***************************************************************************)
EXTENDS Integers, FiniteSets, Sequences, TLC

\* ------------------------------------------------------------------ bounds
MaxAuth == 2        \* invocations of the authenticate command
MaxCb == 2          \* deliveries of the redirect callback
MaxClock == 2       \* the clock runs from 1 s to MaxClock s
MaxExpiresIn == 1   \* expires_in of a token response: 1 .. MaxExpiresIn seconds
MaxRestarts == 1    \* restarts of the extension host
MaxPolls == 2       \* polls (timer ticks and webview requests) per behaviour
MaxMs == 2          \* progress_ms and duration_ms of a body: 0 .. MaxMs
MaxDigestLen == 3   \* short digests: 1 .. MaxDigestLen bytes

\* ------------------------------------------------------- program constants
MsPerSecond == 1000     \* tokens.expires_in * 1000
Sha256Bytes == 32       \* createHash('sha256'): a digest of 32 bytes
Base64Radix == 64       \* toString('base64'): 6 bits per character

NoToken == 0
NoExpiry == 0
NoVerifier == 0
NoCode == ""
NoTrack == 0
NoClientId == ""
NoKey == [key |-> "none", result |-> "none", raised |-> FALSE]

\* Notifications (lines 517 and 542).
SessionExpiredMsg == "Authentication session expired. Please try again."
SuccessMsg == "Successfully authenticated with Spotify!"

Codes == {"AQD"}
ExpiresIns == 1..MaxExpiresIn

AuthIds == 1..MaxAuth
CbIds == (MaxAuth + 1)..(MaxAuth + MaxCb)
Procs == AuthIds \cup CbIds
Verifiers == AuthIds                      \* invocation a generates verifier a (fresh, random)

IsAuth(p) == p \in AuthIds
IsCb(p) == p \in CbIds

\* The channel that delivers the code to invocation p.
Channel(p) == IF p \in CbIds THEN "redirect" ELSE "manual"

PollIds == 1..MaxPolls

\* access_token of the 200 body answering invocation p: the provider issues a
\* fresh token per exchange; the code does not check that the field is there.
ResponseTokens(p) == {p, NoToken}

VARIABLES
    now,                    \* Date.now()
    accessToken,            \* let accessToken
    tokenExpiresAt,         \* let tokenExpiresAt
    pendingCodeVerifier,    \* let pendingCodeVerifier
    globalState,            \* context.globalState: the three persisted entries
    pc,                     \* position of each authenticate / callback invocation
    ver,                    \* codeVerifier local of each invocation
    clientId,               \* clientId local of each invocation
    got,                    \* the token response an invocation is storing
    notified,               \* notifications shown by the last step
    exchanges,              \* history: token-exchange requests sent, per verifier
    completed,              \* history: <<verifier, channel>> of the completion attempts that have finished
    lastWriter,             \* history: invocation whose response was stored last
    cbSucceeded,            \* history: a callback completed with success, no authenticate since
    awaitingCode,           \* history: "initiated" from an authenticate command until a code is
                            \* delivered, "restarted" when the host restarted in between
    restarts,               \* history: restarts so far
    config,                 \* the setting spotifyWidget.clientId
    spotifyPanel,           \* let spotifyPanel (TRUE: a panel object, FALSE: null)
    updateInterval,         \* let updateInterval (TRUE: a timer handle, FALSE: null)
    timers,                 \* intervals scheduled in the event loop
    autoShow,               \* the setTimeout of activate has not fired yet
    lastTrackId,            \* let lastTrackId
    poll,                   \* position of each poll
    polled,                 \* what the last step of a poll did
    injected,               \* what the last step did in sendSpotifyCommand
    data,                   \* getCurrentTrack: the body of the 200 answer being mapped
    trackInfo,              \* getCurrentTrack: what it returned for data
    codeVerifier,           \* authenticateSpotify: const codeVerifier, known by its digest
    codeChallenge,          \* authenticateSpotify: const codeChallenge
    exchangedVerifier       \* completeAuthentication: the codeVerifier it was called with

authVars == <<accessToken, tokenExpiresAt, pendingCodeVerifier, globalState,
              pc, ver, clientId, got, exchanges, completed, lastWriter, cbSucceeded,
              awaitingCode>>

panelVars == <<spotifyPanel, updateInterval, timers, autoShow>>

pollVars == <<lastTrackId, poll>>

\* The argument and the result of the two functions checked on their own.
fnVars == <<data, trackInfo, codeVerifier, codeChallenge, exchangedVerifier>>

vars == <<now, authVars, notified, restarts, config, panelVars, pollVars, polled,
          injected, fnVars>>

\* No payload is being mapped; no challenge has been derived.
NoData == [item |-> <<>>]
NoTrackInfo == [returned |-> FALSE]
NoCodeVerifier == [digest |-> <<>>]
NoChallenge == <<"none">>

NoResponse == [access_token |-> NoToken, expires_in |-> 0, at |-> 0]

EmptyStorage == [spotifyAccessToken |-> NoToken,
                 spotifyTokenExpiresAt |-> NoExpiry,
                 pendingCodeVerifier |-> NoVerifier]

NoPoll == [snapshot |-> "none", requested |-> FALSE, bearer |-> NoToken, post |-> "none",
           answer |-> [outcome |-> "none", status |-> "none", body |-> <<>>]]

\* The state after activate() has run on a fresh installation.
Activated ==
    /\ now = MsPerSecond
    /\ globalState = EmptyStorage
    /\ accessToken = NoToken
    /\ tokenExpiresAt = NoExpiry
    /\ pendingCodeVerifier = NoVerifier
    /\ pc = [p \in Procs |-> "idle"]
    /\ ver = [p \in Procs |-> NoVerifier]
    /\ clientId = [p \in Procs |-> NoClientId]
    /\ got = [p \in Procs |-> NoResponse]
    /\ notified = {}
    /\ exchanges = [v \in Verifiers |-> 0]
    /\ completed = {}
    /\ lastWriter = 0
    /\ cbSucceeded = FALSE
    /\ awaitingCode = "none"
    /\ restarts = 0
    /\ config = NoClientId
    /\ spotifyPanel = FALSE
    /\ updateInterval = FALSE
    /\ timers = 0
    /\ autoShow = TRUE
    /\ lastTrackId = NoTrack
    /\ poll = [q \in PollIds |-> "idle"]
    /\ polled = NoPoll
    /\ injected = NoKey

\* The program as it starts: no function is being applied on its own.
Init ==
    /\ Activated
    /\ data = NoData
    /\ trackInfo = NoTrackInfo
    /\ codeVerifier = NoCodeVerifier
    /\ codeChallenge = NoChallenge
    /\ exchangedVerifier = NoCodeVerifier

\* Time passes.
Tick ==
    /\ now < MaxClock * MsPerSecond
    /\ now' = now + MsPerSecond
    /\ notified' = {}
    /\ polled' = NoPoll
    /\ injected' = NoKey
    /\ UNCHANGED fnVars
    /\ UNCHANGED <<authVars, restarts, config, panelVars, pollVars>>

\* ------------------------------------------------------------ authenticator

\* The application identifier built into the extension (line 372).
DefaultClientId == "ac8d0a8761004cfbb0b582950be8314c"

\* Identifiers a user can put in the setting.
ClientIds == {"own client id"}

\* Mutant of GetClientId: the setting is returned as it is.
GetClientIdNoFallback(setting) == setting

\* getClientId, lines 367-374.
GetClientId(setting) == IF setting # NoClientId THEN setting ELSE DefaultClientId

\* The user edits the setting spotifyWidget.clientId.
ConfigureClientId(id) ==
    /\ id # config
    /\ config' = id
    /\ notified' = {}
    /\ polled' = NoPoll
    /\ injected' = NoKey
    /\ UNCHANGED fnVars
    /\ UNCHANGED <<now, authVars, restarts, panelVars, pollVars>>

\* handleAuthCallback, line 514: pendingCodeVerifier || globalState.get('pendingCodeVerifier')
StoredVerifier ==
    IF pendingCodeVerifier # NoVerifier
    THEN pendingCodeVerifier
    ELSE globalState.pendingCodeVerifier

\* Mutant of NewExpiry: expires_in taken as milliseconds.
NewExpiryNotScaled(t, expires_in) == t + expires_in

\* completeAuthentication, line 537: Date.now() + (tokens.expires_in * 1000)
NewExpiry(t, expires_in) == t + expires_in * MsPerSecond

\* Mutant of ClearedVerifier: the in-memory verifier is left as it is.
ClearedVerifierKept == pendingCodeVerifier

\* handleAuthCallback, line 524: pendingCodeVerifier = null
ClearedVerifier == NoVerifier

\* Invocations are numbered in the order they are made.
InOrder(p) == IF p \in {1, MaxAuth + 1} THEN TRUE ELSE pc[p - 1] # "idle"

\* authenticateSpotify, lines 467-471: generate the verifier, keep it in memory
\* and in storage.  getClientId never returns an empty id (line 372).
AuthStart(a) ==
    /\ pc[a] = "idle"
    /\ InOrder(a)
    /\ pendingCodeVerifier' = a
    /\ globalState' = [globalState EXCEPT !.pendingCodeVerifier = a]
    /\ ver' = [ver EXCEPT ![a] = a]
    /\ clientId' = [clientId EXCEPT ![a] = GetClientId(config)]
    /\ pc' = [pc EXCEPT ![a] = "msg"]
    /\ cbSucceeded' = FALSE
    /\ awaitingCode' = "initiated"
    /\ notified' = {}
    /\ polled' = NoPoll
    /\ injected' = NoKey
    /\ UNCHANGED fnVars
    /\ UNCHANGED <<now, accessToken, tokenExpiresAt, got, exchanges, completed,
                   lastWriter, restarts, config, panelVars, pollVars>>

\* authenticateSpotify, lines 482-496: the user answers the information message;
\* on 'Open Spotify Login' the browser is opened and the input box is shown.
AuthChoose(a, open) ==
    /\ pc[a] = "msg"
    /\ pc' = [pc EXCEPT ![a] = IF open THEN "input" ELSE "end"]
    /\ ver' = [ver EXCEPT ![a] = IF open THEN @ ELSE NoVerifier]
    /\ clientId' = [clientId EXCEPT ![a] = IF open THEN @ ELSE NoClientId]
    /\ notified' = {}
    /\ polled' = NoPoll
    /\ injected' = NoKey
    /\ UNCHANGED fnVars
    /\ UNCHANGED <<now, accessToken, tokenExpiresAt, pendingCodeVerifier,
                   globalState, got, exchanges, completed, lastWriter,
                   cbSucceeded, awaitingCode, restarts, config, panelVars, pollVars>>

\* authenticateSpotify, lines 498-500 with completeAuthentication line 534 and
\* exchangeCodeForToken lines 568-602: a pasted code is exchanged with the
\* verifier the invocation generated; an empty input (Esc) ends the invocation.
AuthPaste(a, manualInput) ==
    /\ pc[a] = "input"
    /\ IF manualInput = NoCode
       THEN /\ pc' = [pc EXCEPT ![a] = "end"]
            /\ ver' = [ver EXCEPT ![a] = NoVerifier]
            /\ clientId' = [clientId EXCEPT ![a] = NoClientId]
            /\ UNCHANGED exchanges
       ELSE /\ pc' = [pc EXCEPT ![a] = "exch"]
            /\ exchanges' = [exchanges EXCEPT ![ver[a]] = @ + 1]
            /\ UNCHANGED <<ver, clientId>>
    /\ awaitingCode' = IF manualInput = NoCode THEN awaitingCode ELSE "none"
    /\ notified' = {}
    /\ polled' = NoPoll
    /\ injected' = NoKey
    /\ UNCHANGED fnVars
    /\ UNCHANGED <<now, accessToken, tokenExpiresAt, pendingCodeVerifier,
                   globalState, got, completed, lastWriter, cbSucceeded,
                   restarts, config, panelVars, pollVars>>

\* handleAuthCallback, lines 505-522 with completeAuthentication line 534.
HandleAuthCallback(c, code) ==
    /\ pc[c] = "idle"
    /\ InOrder(c)
    /\ IF code = NoCode
       THEN /\ pc' = [pc EXCEPT ![c] = "end"]
            /\ notified' = {"No authorization code found in callback"}
            /\ UNCHANGED <<ver, clientId, exchanges>>
       ELSE IF StoredVerifier = NoVerifier
       THEN /\ pc' = [pc EXCEPT ![c] = "end"]
            /\ notified' = {SessionExpiredMsg}
            /\ UNCHANGED <<ver, clientId, exchanges>>
       ELSE /\ pc' = [pc EXCEPT ![c] = "exch"]
            /\ ver' = [ver EXCEPT ![c] = StoredVerifier]
            /\ clientId' = [clientId EXCEPT ![c] = GetClientId(config)]
            /\ exchanges' = [exchanges EXCEPT ![StoredVerifier] = @ + 1]
            /\ notified' = {}
    /\ awaitingCode' = IF code = NoCode THEN awaitingCode ELSE "none"
    /\ polled' = NoPoll
    /\ injected' = NoKey
    /\ UNCHANGED fnVars
    /\ UNCHANGED <<now, accessToken, tokenExpiresAt, pendingCodeVerifier,
                   globalState, got, completed, lastWriter, cbSucceeded,
                   restarts, config, panelVars, pollVars>>

\* Mutant of ExchangeOk: the token goes to storage only, the module variable
\* keeps what it held.
ExchangeOkStorageOnly(p, access_token, expires_in) ==
    /\ pc[p] = "exch"
    /\ tokenExpiresAt' = NewExpiry(now, expires_in)
    /\ globalState' = [globalState EXCEPT !.spotifyAccessToken = access_token]
    /\ got' = [got EXCEPT ![p] = [access_token |-> access_token,
                                  expires_in |-> expires_in, at |-> now]]
    /\ lastWriter' = p
    /\ pc' = [pc EXCEPT ![p] = "w1"]
    /\ notified' = {}
    /\ polled' = NoPoll
    /\ injected' = NoKey
    /\ UNCHANGED fnVars
    /\ UNCHANGED <<now, accessToken, pendingCodeVerifier, ver, clientId, exchanges,
                   completed, cbSucceeded, awaitingCode, restarts, config,
                   panelVars, pollVars>>

\* exchangeCodeForToken line 593 and completeAuthentication lines 536-539: a 200
\* response is stored in memory and the first storage write is made.
ExchangeOk(p, access_token, expires_in) ==
    /\ pc[p] = "exch"
    /\ accessToken' = access_token
    /\ tokenExpiresAt' = NewExpiry(now, expires_in)
    /\ globalState' = [globalState EXCEPT !.spotifyAccessToken = accessToken']
    /\ got' = [got EXCEPT ![p] = [access_token |-> access_token,
                                  expires_in |-> expires_in, at |-> now]]
    /\ lastWriter' = p
    /\ pc' = [pc EXCEPT ![p] = "w1"]
    /\ notified' = {}
    /\ polled' = NoPoll
    /\ injected' = NoKey
    /\ UNCHANGED fnVars
    /\ UNCHANGED <<now, pendingCodeVerifier, ver, clientId, exchanges, completed,
                   cbSucceeded, awaitingCode, restarts, config, panelVars, pollVars>>

\* completeAuthentication, line 540: the second storage write stores the
\* module-level tokenExpiresAt as it is when the first write has returned.
SecondWrite(p) ==
    /\ pc[p] = "w1"
    /\ globalState' = [globalState EXCEPT !.spotifyTokenExpiresAt = tokenExpiresAt]
    /\ pc' = [pc EXCEPT ![p] = "w2"]
    /\ notified' = {}
    /\ polled' = NoPoll
    /\ injected' = NoKey
    /\ UNCHANGED fnVars
    /\ UNCHANGED <<now, accessToken, tokenExpiresAt, pendingCodeVerifier, ver, clientId,
                   got, exchanges, completed, lastWriter, cbSucceeded, awaitingCode,
                   restarts, config, panelVars, pollVars>>

\* completeAuthentication, line 542, returns; authenticateSpotify ends (line 501),
\* handleAuthCallback goes on to clear the verifier (lines 524-525).
CompleteReturn(p) ==
    /\ pc[p] = "w2"
    /\ notified' = {SuccessMsg}
    /\ completed' = completed \cup {<<ver[p], Channel(p)>>}
    /\ got' = [got EXCEPT ![p] = NoResponse]
    /\ ver' = [ver EXCEPT ![p] = NoVerifier]
    /\ clientId' = [clientId EXCEPT ![p] = NoClientId]
    /\ IF IsCb(p)
       THEN /\ pendingCodeVerifier' = ClearedVerifier
            /\ globalState' = [globalState EXCEPT !.pendingCodeVerifier = NoVerifier]
            /\ pc' = [pc EXCEPT ![p] = "clr"]
            /\ cbSucceeded' = TRUE
       ELSE /\ pc' = [pc EXCEPT ![p] = "end"]
            /\ UNCHANGED <<pendingCodeVerifier, globalState, cbSucceeded>>
    /\ polled' = NoPoll
    /\ injected' = NoKey
    /\ UNCHANGED fnVars
    /\ UNCHANGED <<now, accessToken, tokenExpiresAt, exchanges, lastWriter,
                   awaitingCode, restarts, config, panelVars, pollVars>>

\* handleAuthCallback, line 525: the storage write of the cleared verifier returns.
CallbackDone(c) ==
    /\ pc[c] = "clr"
    /\ pc' = [pc EXCEPT ![c] = "end"]
    /\ notified' = {}
    /\ polled' = NoPoll
    /\ injected' = NoKey
    /\ UNCHANGED fnVars
    /\ UNCHANGED <<now, accessToken, tokenExpiresAt, pendingCodeVerifier,
                   globalState, ver, clientId, got, exchanges, completed, lastWriter,
                   cbSucceeded, awaitingCode, restarts, config, panelVars, pollVars>>

\* Mutant of ExchangeFail: the failure path resets the in-memory credential.
ExchangeFailResets(p) ==
    /\ pc[p] = "exch"
    /\ completed' = completed \cup {<<ver[p], Channel(p)>>}
    /\ ver' = [ver EXCEPT ![p] = NoVerifier]
    /\ clientId' = [clientId EXCEPT ![p] = NoClientId]
    /\ pc' = [pc EXCEPT ![p] = "end"]
    /\ accessToken' = NoToken
    /\ tokenExpiresAt' = NoExpiry
    /\ notified' = IF IsCb(p)
                   THEN {"Authentication failed", "Failed to handle authentication callback"}
                   ELSE {"Authentication failed", "rejected: authenticateSpotify"}
    /\ polled' = NoPoll
    /\ injected' = NoKey
    /\ UNCHANGED fnVars
    /\ UNCHANGED <<now, pendingCodeVerifier, globalState, got, exchanges,
                   lastWriter, cbSucceeded, awaitingCode, restarts, config, panelVars, pollVars>>

\* exchangeCodeForToken lines 595 and 600, completeAuthentication lines 543-546:
\* a non-200 response or a transport error.  The error is shown and thrown again:
\* authenticateSpotify rejects (the command raises), handleAuthCallback catches
\* it (lines 527-529), skipping lines 524-525.
ExchangeFail(p) ==
    /\ pc[p] = "exch"
    /\ completed' = completed \cup {<<ver[p], Channel(p)>>}
    /\ ver' = [ver EXCEPT ![p] = NoVerifier]
    /\ clientId' = [clientId EXCEPT ![p] = NoClientId]
    /\ pc' = [pc EXCEPT ![p] = "end"]
    /\ notified' = IF IsCb(p)
                   THEN {"Authentication failed", "Failed to handle authentication callback"}
                   ELSE {"Authentication failed", "rejected: authenticateSpotify"}
    /\ polled' = NoPoll
    /\ injected' = NoKey
    /\ UNCHANGED fnVars
    /\ UNCHANGED <<now, accessToken, tokenExpiresAt, pendingCodeVerifier,
                   globalState, got, exchanges, lastWriter, cbSucceeded, awaitingCode,
                   restarts, config, panelVars, pollVars>>

\* exchangeCodeForToken line 593: JSON.parse throws inside the 'end' listener on
\* a 200 response with an unparseable body; the promise is never settled.
ExchangeUnparseable(p) ==
    /\ pc[p] = "exch"
    /\ pc' = [pc EXCEPT ![p] = "end"]
    /\ ver' = [ver EXCEPT ![p] = NoVerifier]
    /\ clientId' = [clientId EXCEPT ![p] = NoClientId]
    /\ notified' = {"uncaught: JSON.parse"}
    /\ polled' = NoPoll
    /\ injected' = NoKey
    /\ UNCHANGED fnVars
    /\ UNCHANGED <<now, accessToken, tokenExpiresAt, pendingCodeVerifier,
                   globalState, got, exchanges, completed, lastWriter,
                   cbSucceeded, awaitingCode, restarts, config, panelVars, pollVars>>

\* The extension host restarts: module state is lost, the handlers in flight
\* are gone, activate (lines 381-384, 417-419) reads the credential from storage
\* and schedules the first show.
Restart ==
    /\ restarts < MaxRestarts
    /\ restarts' = restarts + 1
    /\ accessToken' = globalState.spotifyAccessToken
    /\ tokenExpiresAt' = globalState.spotifyTokenExpiresAt
    /\ pendingCodeVerifier' = NoVerifier
    /\ pc' = [p \in Procs |-> IF pc[p] = "idle" THEN "idle" ELSE "end"]
    /\ ver' = [p \in Procs |-> NoVerifier]
    /\ clientId' = [p \in Procs |-> NoClientId]
    /\ got' = [p \in Procs |-> NoResponse]
    /\ lastWriter' = 0
    /\ spotifyPanel' = FALSE
    /\ updateInterval' = FALSE
    /\ timers' = 0
    /\ autoShow' = TRUE
    /\ lastTrackId' = NoTrack
    /\ poll' = [q \in PollIds |-> IF poll[q] = "idle" THEN "idle" ELSE "end"]
    /\ notified' = {}
    /\ polled' = NoPoll
    /\ injected' = NoKey
    /\ UNCHANGED fnVars
    /\ awaitingCode' = IF awaitingCode = "initiated" THEN "restarted" ELSE awaitingCode
    /\ UNCHANGED <<now, globalState, exchanges, completed, cbSucceeded, config>>

AuthNext ==
    \/ \E a \in AuthIds : AuthStart(a)
    \/ \E a \in AuthIds, open \in BOOLEAN : AuthChoose(a, open)
    \/ \E a \in AuthIds, manualInput \in Codes \cup {NoCode} : AuthPaste(a, manualInput)
    \/ \E c \in CbIds, code \in Codes \cup {NoCode} : HandleAuthCallback(c, code)
    \/ \E p \in Procs : \E t \in ResponseTokens(p), e \in ExpiresIns : ExchangeOk(p, t, e)
    \/ \E p \in Procs : SecondWrite(p)
    \/ \E p \in Procs : CompleteReturn(p)
    \/ \E c \in CbIds : CallbackDone(c)
    \/ \E p \in Procs : ExchangeFail(p)
    \/ \E p \in Procs : ExchangeUnparseable(p)

\* ------------------------------------------------------------ panel and timer

\* Mutant of CreateOrShowSpotifyWidget: without the early return of lines 607-610.
CreateOrShowSpotifyWidgetAlwaysCreates ==
    /\ spotifyPanel' = TRUE
    /\ updateInterval' = TRUE
    /\ timers' = timers + 1

\* createOrShowSpotifyWidget, lines 606-672: reveal the panel there is, or
\* create one, register the handlers and start the interval.
CreateOrShowSpotifyWidget ==
    IF spotifyPanel
    THEN UNCHANGED <<spotifyPanel, updateInterval, timers>>
    ELSE /\ spotifyPanel' = TRUE
         /\ updateInterval' = TRUE
         /\ timers' = timers + 1

\* Mutant of OnDidDispose: the panel handle is dropped, the interval is left running.
OnDidDisposeLeavesTimer ==
    /\ spotifyPanel' = FALSE
    /\ UNCHANGED <<timers, updateInterval>>

\* The onDidDispose listener, lines 662-667.
OnDidDispose ==
    /\ spotifyPanel' = FALSE
    /\ IF updateInterval
       THEN /\ timers' = timers - 1
            /\ updateInterval' = FALSE
       ELSE UNCHANGED <<timers, updateInterval>>

\* activate, lines 417-419: the timeout set by activate fires.
AutoShow ==
    /\ autoShow
    /\ autoShow' = FALSE
    /\ CreateOrShowSpotifyWidget
    /\ notified' = {}
    /\ polled' = NoPoll
    /\ injected' = NoKey
    /\ UNCHANGED fnVars
    /\ UNCHANGED <<now, authVars, restarts, config, pollVars>>

\* activate, lines 394-396: the command spotify-widget.show.
ShowCommand ==
    /\ CreateOrShowSpotifyWidget
    /\ notified' = {}
    /\ polled' = NoPoll
    /\ injected' = NoKey
    /\ UNCHANGED fnVars
    /\ UNCHANGED <<now, authVars, restarts, config, autoShow, pollVars>>

\* activate, lines 397-401: the command spotify-widget.hide.
HideCommand ==
    /\ IF spotifyPanel
       THEN OnDidDispose
       ELSE UNCHANGED <<spotifyPanel, updateInterval, timers>>
    /\ notified' = {}
    /\ polled' = NoPoll
    /\ injected' = NoKey
    /\ UNCHANGED fnVars
    /\ UNCHANGED <<now, authVars, restarts, config, autoShow, pollVars>>

\* The user closes the panel: the host disposes it.
PanelClosed ==
    /\ spotifyPanel
    /\ OnDidDispose
    /\ notified' = {}
    /\ polled' = NoPoll
    /\ injected' = NoKey
    /\ UNCHANGED fnVars
    /\ UNCHANGED <<now, authVars, restarts, config, autoShow, pollVars>>

\* ------------------------------------------------------------------- poller

\* Mutant of TokenExpired: the expiry instant itself still counts as valid.
TokenExpiredStrict == tokenExpiresAt # NoExpiry /\ now > tokenExpiresAt

\* Mutant of TokenExpired: a missing expiry counts as expired.
TokenExpiredOrMissing == tokenExpiresAt = NoExpiry \/ now >= tokenExpiresAt

\* getCurrentTrack, line 675: tokenExpiresAt && Date.now() >= tokenExpiresAt
TokenExpired == tokenExpiresAt # NoExpiry /\ now >= tokenExpiresAt

\* getCurrentTrack, line 678: !accessToken
NotAuthenticated == accessToken = NoToken

\* Mutant of Gate: the token rule is evaluated before the expiry rule.
GateTokenFirst ==
    IF accessToken = NoToken THEN "Not authenticated"
    ELSE IF tokenExpiresAt # NoExpiry /\ now >= tokenExpiresAt THEN "Token expired"
    ELSE "request"

\* getCurrentTrack, lines 675-682: the snapshot returned without a request, or
\* "request" when spotifyApiRequest is called.
Gate ==
    IF TokenExpired THEN "Token expired"
    ELSE IF NotAuthenticated THEN "Not authenticated"
    ELSE "request"

\* What happens to the currently-playing request: the provider answers with a
\* status and a body, the transport fails, or nothing comes for 5 seconds.
\* A body is the sequence of its parts; "401" stands for those characters
\* occurring in it.
ErrorStatuses == {"401", "500"}

JsonBodies == {<<"track">>, <<"malformed item">>, <<"no item">>, <<"null">>}

TextBodies == {<<"text">>, <<"text", "401">>}

\* A 200 answer carries JSON or something JSON.parse refuses, another status
\* carries some text, a 204 carries nothing.
Responses ==
    [outcome : {"response"}, status : {"200"}, body : JsonBodies \cup TextBodies]
        \cup [outcome : {"response"}, status : ErrorStatuses, body : TextBodies]
        \cup {[outcome |-> "response", status |-> "204", body |-> <<>>]}
        \cup {[outcome |-> o, status |-> "none", body |-> <<>>] : o \in {"error", "timeout"}}

NoAnswer == [outcome |-> "none", status |-> "none", body |-> <<>>]

Resolved(json) == [settled |-> "resolved", data |-> json, message |-> <<>>]

Rejected(message) == [settled |-> "rejected", data |-> <<>>, message |-> message]

\* Mutant of SpotifyApiRequest: a 204 is handled like any other non-200 status.
SpotifyApiRequestRejects204(r) ==
    IF r.outcome = "timeout" THEN Rejected(<<"Request timeout">>)
    ELSE IF r.outcome = "error" THEN Rejected(<<"socket hang up">>)
    ELSE IF r.status = "200"
    THEN IF r.body \in JsonBodies
         THEN Resolved(r.body)
         ELSE Rejected(<<"Failed to parse response">>)
    ELSE Rejected(<<r.status, ": ">> \o r.body)

\* spotifyApiRequest, lines 724-749: what the promise settles with.
SpotifyApiRequest(r) ==
    IF r.outcome = "timeout" THEN Rejected(<<"Request timeout">>)
    ELSE IF r.outcome = "error" THEN Rejected(<<"socket hang up">>)
    ELSE IF r.status = "204" THEN Resolved(<<"null">>)
    ELSE IF r.status = "200"
    THEN IF r.body \in JsonBodies
         THEN Resolved(r.body)
         ELSE Rejected(<<"Failed to parse response">>)
    ELSE Rejected(<<r.status, ": ">> \o r.body)

Rejections == {r \in Responses : SpotifyApiRequest(r).settled = "rejected"}

\* Line 704: error.message.includes('401')
Includes401(message) == \E i \in DOMAIN message : message[i] = "401"

\* Mutant of Catch: the error is thrown again after the notification.
CatchRethrows(message, item) ==
    [settled |-> "rejected", snapshot |-> "none",
     notify |-> {"Spotify API error"}, item |-> item]

\* getCurrentTrack, lines 701-708: the catch block.
Catch(message, item) ==
    [settled |-> "resolved",
     snapshot |-> IF Includes401(message) THEN "Authentication expired" ELSE "Connecting...",
     notify |-> {"Spotify API error"}, item |-> item]

\* getCurrentTrack, lines 681-708: what the poll settles with once the request
\* has settled.  item: line 689 was reached (lastTrackId is assigned before the
\* fields of the item are read, lines 695-697).
GetCurrentTrack(r) ==
    LET res == SpotifyApiRequest(r)
    IN  IF res.settled = "rejected" THEN Catch(res.message, FALSE)
        ELSE IF res.data \in {<<"null">>, <<"no item">>}
        THEN [settled |-> "resolved", snapshot |-> "No track playing",
              notify |-> {}, item |-> FALSE]
        ELSE IF res.data = <<"malformed item">>
        THEN Catch(<<"Cannot read properties of undefined">>, TRUE)
        ELSE [settled |-> "resolved", snapshot |-> "track", notify |-> {}, item |-> TRUE]

\* getCurrentTrack, lines 684-707: the snapshot for a response.
Snapshot(r) == GetCurrentTrack(r).snapshot

\* Lines 639 and 655: spotifyPanel.webview.postMessage(...) after the await.
PostMessage == IF spotifyPanel THEN "posted" ELSE "TypeError"

PollInOrder(q) == IF q = 1 THEN TRUE ELSE poll[q - 1] # "idle"

\* getCurrentTrack up to its first real wait: a snapshot returned at once is
\* posted in the same turn of the event loop, a request leaves the poll in flight.
GetCurrentTrackStart(q) ==
    /\ poll[q] = "idle"
    /\ PollInOrder(q)
    /\ IF Gate = "request"
       THEN /\ poll' = [poll EXCEPT ![q] = "req"]
            /\ polled' = [snapshot |-> "none", requested |-> TRUE, bearer |-> accessToken,
                          post |-> "none", answer |-> NoAnswer]
       ELSE /\ poll' = [poll EXCEPT ![q] = "end"]
            /\ polled' = [snapshot |-> Gate, requested |-> FALSE, bearer |-> NoToken,
                          post |-> PostMessage, answer |-> NoAnswer]
    /\ notified' = {}
    /\ injected' = NoKey
    /\ UNCHANGED fnVars
    /\ UNCHANGED <<now, authVars, restarts, config, panelVars, lastTrackId>>

\* The setInterval callback, lines 652-660.
TimerTick(q) ==
    /\ timers > 0
    /\ IF spotifyPanel
       THEN GetCurrentTrackStart(q)
       ELSE /\ notified' = {}
            /\ polled' = NoPoll
            /\ injected' = NoKey
            /\ UNCHANGED fnVars
            /\ UNCHANGED <<now, authVars, restarts, config, panelVars, pollVars>>

\* The webview message 'getCurrentTrack', lines 637-643.
WebviewGetCurrentTrack(q) ==
    /\ spotifyPanel
    /\ GetCurrentTrackStart(q)

\* Mutant of PollResponse: an 'Authentication expired' outcome drops the token.
PollResponseDropsToken(q, r, id) ==
    /\ poll[q] = "req"
    /\ poll' = [poll EXCEPT ![q] = "end"]
    /\ lastTrackId' = IF GetCurrentTrack(r).item THEN id ELSE lastTrackId
    /\ notified' = GetCurrentTrack(r).notify
    /\ polled' = [snapshot |-> Snapshot(r), requested |-> FALSE, bearer |-> NoToken,
                  post |-> IF GetCurrentTrack(r).settled = "resolved"
                           THEN PostMessage ELSE "none",
                  answer |-> r]
    /\ injected' = NoKey
    /\ UNCHANGED fnVars
    /\ accessToken' = IF Snapshot(r) = "Authentication expired" THEN NoToken ELSE accessToken
    /\ UNCHANGED <<now, tokenExpiresAt, pendingCodeVerifier, globalState, pc, ver,
                   clientId, got, exchanges, completed, lastWriter, cbSucceeded,
                   awaitingCode, restarts, config, panelVars>>

\* spotifyApiRequest settles (lines 724-749); getCurrentTrack builds the snapshot
\* (lines 684-707) and the caller posts it (lines 639, 655).  Were getCurrentTrack
\* to reject, the caller would post nothing.
PollResponse(q, r, id) ==
    /\ poll[q] = "req"
    /\ poll' = [poll EXCEPT ![q] = "end"]
    /\ lastTrackId' = IF GetCurrentTrack(r).item THEN id ELSE lastTrackId
    /\ notified' = GetCurrentTrack(r).notify
    /\ polled' = [snapshot |-> Snapshot(r), requested |-> FALSE, bearer |-> NoToken,
                  post |-> IF GetCurrentTrack(r).settled = "resolved"
                           THEN PostMessage ELSE "none",
                  answer |-> r]
    /\ injected' = NoKey
    /\ UNCHANGED fnVars
    /\ UNCHANGED <<now, authVars, restarts, config, panelVars>>

TrackIds == {1}

\* ------------------------------------------------------------ media keys

\* The commands of the webview's buttons (lines 628-636).
Commands == {"PlayPause", "Next", "Previous"}

\* What can happen to the key injection: the shell runs and sends the key, the
\* shell fails (the exec callback gets an error), or exec itself throws.
ExecOutcomes == {"sent", "exec error", "exec throws"}

\* Lines 770-774: the character each command makes the shell send.
PsCommands(command) ==
    CASE command = "PlayPause" -> "[char]179"
      [] command = "Next" -> "[char]176"
      [] command = "Previous" -> "[char]177"

\* Mutant of SendKeys: an exception of exec leaves the function.
SendKeysUncaught(command, outcome) ==
    IF outcome = "exec throws"
    THEN [key |-> "none", result |-> "thrown", raised |-> TRUE]
    ELSE [key |-> PsCommands(command),
          result |-> IF outcome = "sent" THEN "sent" ELSE "logged",
          raised |-> FALSE]

\* sendSpotifyCommand, lines 768-784: an error of the shell is logged in the
\* exec callback (lines 777-779), an exception is caught (lines 781-784).
SendKeys(command, outcome) ==
    IF outcome = "exec throws"
    THEN [key |-> "none", result |-> "caught", raised |-> FALSE]
    ELSE [key |-> PsCommands(command),
          result |-> IF outcome = "sent" THEN "sent" ELSE "logged",
          raised |-> FALSE]

\* The webview messages 'playPause', 'next' and 'previous', lines 628-636, with
\* sendSpotifyCommand, lines 767-785.
SendSpotifyCommand(command, outcome) ==
    /\ spotifyPanel
    /\ injected' = SendKeys(command, outcome)
    /\ UNCHANGED fnVars
    /\ notified' = IF SendKeys(command, outcome).result = "caught"
                   THEN {"Failed to control Spotify. Make sure Spotify is running."}
                   ELSE {}
    /\ polled' = NoPoll
    /\ UNCHANGED <<now, authVars, restarts, config, panelVars, pollVars>>

PanelNext ==
    \/ AutoShow
    \/ ShowCommand
    \/ HideCommand
    \/ PanelClosed

PollNext ==
    \/ \E q \in PollIds : TimerTick(q)
    \/ \E q \in PollIds : WebviewGetCurrentTrack(q)
    \/ \E q \in PollIds, r \in Responses, id \in TrackIds : PollResponse(q, r, id)

\* One authentication by manual paste.
ManualAuthNext ==
    \/ AuthStart(1)
    \/ \E open \in BOOLEAN : AuthChoose(1, open)
    \/ \E manualInput \in Codes \cup {NoCode} : AuthPaste(1, manualInput)
    \/ \E t \in ResponseTokens(1), e \in ExpiresIns : ExchangeOk(1, t, e)
    \/ SecondWrite(1)
    \/ CompleteReturn(1)
    \/ ExchangeFail(1)

Next ==
    \/ Tick
    \/ Restart
    \/ AuthNext

\* The authenticator: every interleaving of the authenticate command, the
\* redirect callback, the clock and a restart.
Spec == Init /\ [][Next]_vars

NextPoll ==
    \/ Tick
    \/ Restart
    \/ ManualAuthNext
    \/ PanelNext
    \/ PollNext

\* The poller and the panel, with the credential written by one authentication.
SpecPoll == Init /\ [][NextPoll]_vars

NextControl ==
    \/ \E id \in ClientIds \cup {NoClientId} : ConfigureClientId(id)
    \/ \E command \in Commands, outcome \in ExecOutcomes : SendSpotifyCommand(command, outcome)
    \/ ManualAuthNext
    \/ PanelNext
    \/ PollNext

\* The settings, the webview's buttons and the media keys, next to one
\* authentication, the panel and the polls.
SpecControl == Init /\ [][NextControl]_vars

\* ------------------------------------------------- the snapshot of a track

\* An optional field of a JSON object: absent, or present with a value.
Absent == <<>>
Some(v) == <<v>>

\* A string is the sequence of its characters.
ArtistNames == {<<"A">>, <<"B">>}

\* item.artists: no such field, or a list of up to two artists.
ArtistLists ==
    {Absent} \cup {Some(<<>>)}
        \cup {Some(<<[name |-> a]>>) : a \in ArtistNames}
        \cup {Some(<<[name |-> a], [name |-> b]>>) : a \in ArtistNames, b \in ArtistNames}

\* album.images: no such field, an empty list, or up to two images; an image
\* may have an empty url.
Urls == {"", "url1", "url2"}

ImageLists ==
    {Absent} \cup {Some(<<>>)}
        \cup {Some(<<[url |-> u]>>) : u \in Urls}
        \cup {Some(<<[url |-> "url1"], [url |-> "url2"]>>)}

\* item.album: no such field, or an album.
Albums == {Absent} \cup {Some([name |-> "Album", images |-> i]) : i \in ImageLists}

\* progress_ms and duration_ms: no such field, or a number of milliseconds.
Milliseconds == {Absent} \cup {Some(n) : n \in 0..MaxMs}

\* The track item of a 200 body.
Items ==
    [id : TrackIds, name : {"Song"}, artists : ArtistLists, album : Albums,
     duration_ms : Milliseconds]

\* The parsed 200 bodies: without an item (null or no such field), or with one.
Payloads ==
    [is_playing : BOOLEAN, item : {Absent} \cup {Some(i) : i \in Items},
     progress_ms : Milliseconds]

\* x || 0 for an optional number, lines 698-699.
OrZero(x) == IF x = Absent THEN 0 ELSE IF x[1] = 0 THEN 0 ELSE x[1]

\* Mutant of Join: the separator is put after every element.
JoinTrailing(strings, separator) ==
    LET RECURSIVE Acc(_)
        Acc(k) == IF k = 0 THEN <<>> ELSE Acc(k - 1) \o strings[k] \o separator
    IN  Acc(Len(strings))

\* Array.prototype.join: the elements from left to right, the separator before
\* every element but the first.
Join(strings, separator) ==
    LET RECURSIVE Acc(_)
        Acc(k) == IF k = 0 THEN <<>>
                  ELSE IF k = 1 THEN strings[1]
                  ELSE Acc(k - 1) \o separator \o strings[k]
    IN  Acc(Len(strings))

\* createEmptyTrackInfo, lines 754-765.
CreateEmptyTrackInfo(artist, album) ==
    [isPlaying |-> FALSE, track |-> "null", artist |-> <<artist>>, album |-> album,
     albumArt |-> "", progress |-> 0, duration |-> 0, error |-> TRUE]

\* getCurrentTrack, lines 684-707, for a parsed 200 body d: the object returned
\* and the notification shown.  Reading a field of a missing artists, album or
\* images (lines 695-697) throws a TypeError, which the catch of line 701 takes.
MapTrack(d) ==
    IF d.item = Absent
    THEN [value |-> CreateEmptyTrackInfo("No track playing", "Start playing music on Spotify"),
          notify |-> {}]
    ELSE IF d.item[1].artists = Absent \/ d.item[1].album = Absent
    THEN [value |-> CreateEmptyTrackInfo("Connecting...", "Loading track info"),
          notify |-> {"Spotify API error"}]
    ELSE IF d.item[1].album[1].images = Absent
    THEN [value |-> CreateEmptyTrackInfo("Connecting...", "Loading track info"),
          notify |-> {"Spotify API error"}]
    ELSE LET item == d.item[1]
             artists == item.artists[1]
             album == item.album[1]
             images == album.images[1]
         IN  [value |-> [isPlaying |-> d.is_playing,
                         track |-> item.name,
                         artist |-> Join([k \in 1..Len(artists) |-> artists[k].name],
                                         <<",", " ">>),
                         album |-> album.name,
                         albumArt |-> IF Len(images) = 0 THEN ""
                                      ELSE IF images[1].url = "" THEN ""
                                      ELSE images[1].url,
                         progress |-> OrZero(d.progress_ms),
                         duration |-> OrZero(item.duration_ms),
                         error |-> FALSE],
              notify |-> {}]

\* A 200 body arrives.
InitSnapshot ==
    /\ Activated
    /\ data \in Payloads
    /\ trackInfo = NoTrackInfo
    /\ codeVerifier = NoCodeVerifier
    /\ codeChallenge = NoChallenge
    /\ exchangedVerifier = NoCodeVerifier

\* getCurrentTrack returns for the body.
ReturnTrackInfo ==
    /\ ~trackInfo.returned
    /\ trackInfo' = [returned |-> TRUE, value |-> MapTrack(data).value,
                     notify |-> MapTrack(data).notify]
    /\ UNCHANGED <<now, authVars, notified, restarts, config, panelVars, pollVars,
                   polled, injected, data, codeVerifier, codeChallenge,
                   exchangedVerifier>>

NextSnapshot == ReturnTrackInfo

\* getCurrentTrack as a function of the body it receives.
SpecSnapshot == InitSnapshot /\ [][NextSnapshot]_vars

\* ------------------------------------------------------ the code challenge

\* Byte values of a digest: among them those whose bits give the base64
\* characters '+' (sextet 62) and '/' (sextet 63).
ByteValues == {0, 1, 190, 239, 251, 255}

\* crypto.createHash('sha256')...digest(), line 557: a digest is a sequence of
\* bytes.  The digests considered: every sequence of 1 .. MaxDigestLen of the
\* byte values, and sequences of the length of a SHA-256 digest.
Digests ==
    UNION {[1..n -> ByteValues] : n \in 1..MaxDigestLen}
        \cup {[k \in 1..Sha256Bytes |-> IF k % 3 = 0 THEN b ELSE c] :
                  b \in ByteValues, c \in {190, 251}}

\* generateRandomString(128), line 468: a verifier, known here by the digest
\* SHA-256 gives for it.
CodeVerifiers == [digest : Digests]

\* The base64 alphabet, by sextet value plus one.
Base64Chars ==
    <<"A", "B", "C", "D", "E", "F", "G", "H", "I", "J", "K", "L", "M",
      "N", "O", "P", "Q", "R", "S", "T", "U", "V", "W", "X", "Y", "Z",
      "a", "b", "c", "d", "e", "f", "g", "h", "i", "j", "k", "l", "m",
      "n", "o", "p", "q", "r", "s", "t", "u", "v", "w", "x", "y", "z",
      "0", "1", "2", "3", "4", "5", "6", "7", "8", "9", "+", "/">>

\* The sextets of n, a number of 6 * count bits, most significant first.
Sextets(n, count) ==
    [k \in 1..count |-> (n \div (Base64Radix ^ (count - k))) % Base64Radix]

\* buffer.toString('base64'), line 562: three bytes give four characters; one
\* or two bytes left over give two or three characters and '=' up to four.
RECURSIVE ToBase64(_)
ToBase64(buffer) ==
    LET chars(n, count) == [k \in 1..count |-> Base64Chars[Sextets(n, count)[k] + 1]]
    IN  IF Len(buffer) = 0 THEN <<>>
        ELSE IF Len(buffer) = 1
        THEN chars(buffer[1] * 16, 2) \o <<"=", "=">>
        ELSE IF Len(buffer) = 2
        THEN chars((buffer[1] * 256 + buffer[2]) * 4, 3) \o <<"=">>
        ELSE chars(buffer[1] * 65536 + buffer[2] * 256 + buffer[3], 4)
                 \o ToBase64(SubSeq(buffer, 4, Len(buffer)))

\* Mutant of Replace: String.prototype.replace with a pattern that is not
\* global replaces the first occurrence only.
ReplaceFirst(string, char, replacement) ==
    IF \E k \in 1..Len(string) : string[k] = char
    THEN LET first == CHOOSE k \in 1..Len(string) :
                          /\ string[k] = char
                          /\ \A j \in 1..(k - 1) : string[j] # char
         IN  SubSeq(string, 1, first - 1) \o replacement
                 \o SubSeq(string, first + 1, Len(string))
    ELSE string

\* String.prototype.replace with a global one-character pattern, lines 563-565:
\* every occurrence of char is replaced.
RECURSIVE Replace(_, _, _)
Replace(string, char, replacement) ==
    IF Len(string) = 0 THEN <<>>
    ELSE (IF Head(string) = char THEN replacement ELSE <<Head(string)>>)
             \o Replace(Tail(string), char, replacement)

\* base64URLEncode, lines 561-566.
Base64URLEncode(buffer) ==
    Replace(Replace(Replace(ToBase64(buffer), "+", <<"-">>), "/", <<"_">>), "=", <<>>)

\* generateCodeChallenge, lines 555-559, for a verifier with the given digest.
GenerateCodeChallenge(verifier) == Base64URLEncode(verifier.digest)

\* A verifier has been generated.
InitChallenge ==
    /\ Activated
    /\ data = NoData
    /\ trackInfo = NoTrackInfo
    /\ codeVerifier \in CodeVerifiers
    /\ codeChallenge = NoChallenge
    /\ exchangedVerifier = NoCodeVerifier

\* authenticateSpotify, lines 469 and 473-480: the challenge is derived and put
\* into the authorization URL.
DeriveChallenge ==
    /\ codeChallenge' = GenerateCodeChallenge(codeVerifier)
    /\ UNCHANGED <<now, authVars, notified, restarts, config, panelVars, pollVars,
                   polled, injected, data, trackInfo, codeVerifier, exchangedVerifier>>

\* authenticateSpotify, lines 495-497: a code is pasted and completeAuthentication
\* is called with the verifier of this invocation.
PasteCode ==
    /\ codeChallenge # NoChallenge
    /\ exchangedVerifier = NoCodeVerifier
    /\ exchangedVerifier' = codeVerifier
    /\ UNCHANGED <<now, authVars, notified, restarts, config, panelVars, pollVars,
                   polled, injected, data, trackInfo, codeVerifier, codeChallenge>>

NextChallenge ==
    \/ DeriveChallenge
    \/ PasteCode

\* One invocation of authenticateSpotify, from the verifier to the exchange.
SpecChallenge == InitChallenge /\ [][NextChallenge]_vars

\* ------------------------------------------------------------------- claims

\* C1 (as claimed): for one authentication attempt (one verifier), under every
\* interleaving of the redirect callback and the manual paste, at most one
\* token-exchange request is issued.
C1_AtMostOneExchange == \A v \in Verifiers : exchanges[v] <= 1

\* C2 (as claimed): once a completion attempt for an authentication attempt has
\* finished on one channel, a code delivered on the other channel for the same
\* attempt starts no token exchange.
C2_SecondChannelRejected ==
    [][\A p \in Procs :
         (pc[p] # "exch" /\ pc'[p] = "exch")
            => \A x \in completed : ~(x[1] = ver'[p] /\ x[2] # Channel(p))]_vars

\* C3 (as claimed): after a completion attempt with a verifier has finished,
\* with success or failure and on either channel, that verifier is pending
\* neither in memory nor in storage.
C3_VerifierAbsentAfterCompletion ==
    \A x \in completed :
        pendingCodeVerifier # x[1] /\ globalState.pendingCodeVerifier # x[1]

\* C4: a redirect callback delivered with a code after a callback delivery has
\* completed with success (no authenticate command in between) finds no
\* verifier: it sends no token-exchange request, shows the session-expired
\* error, returns normally and leaves the credential as it is.
C4_SecondDeliveryFailsCleanly ==
    [][\A c \in CbIds : \A code \in Codes :
         (cbSucceeded /\ HandleAuthCallback(c, code))
            => /\ pc'[c] = "end"
               /\ notified' = {SessionExpiredMsg}
               /\ exchanges' = exchanges
               /\ accessToken' = accessToken
               /\ tokenExpiresAt' = tokenExpiresAt
               /\ globalState' = globalState]_vars

\* C4 witness: the second delivery has been rejected while the credential of
\* the first is in place.
C4_Witness ==
    /\ cbSucceeded
    /\ notified = {SessionExpiredMsg}
    /\ accessToken # NoToken
    /\ globalState.spotifyAccessToken = accessToken
    /\ \E c \in CbIds : c > MaxAuth + 1 /\ pc[c] = "end"

\* C5: when a token exchange fails, on either channel, an error is shown and
\* the credential in memory and in storage is what it was; the poller decides
\* as before.
C5_FailureLeavesCredential ==
    [][\A p \in Procs :
         ExchangeFail(p)
            => /\ "Authentication failed" \in notified'
               /\ accessToken' = accessToken
               /\ tokenExpiresAt' = tokenExpiresAt
               /\ globalState'.spotifyAccessToken = globalState.spotifyAccessToken
               /\ globalState'.spotifyTokenExpiresAt = globalState.spotifyTokenExpiresAt
               /\ Gate' = Gate]_vars

\* C5 witness: an exchange has just failed while a valid token is held.
C5_Witness ==
    /\ "Authentication failed" \in notified
    /\ accessToken # NoToken
    /\ tokenExpiresAt > now
    /\ globalState.spotifyAccessToken = accessToken
    /\ globalState.spotifyTokenExpiresAt = tokenExpiresAt

\* C6 (as claimed): when completeAuthentication finishes after a successful
\* exchange, the credential in memory and in storage is the one of its
\* response: its access_token, and the instant it was stored plus expires_in.
\* Stated for the behaviours in which no verifier has been exchanged twice, so
\* that a violation does not rest on the double exchange of C1.
C6_CredentialIsOwnResponse ==
    [][\A p \in Procs :
         (CompleteReturn(p) /\ \A v \in Verifiers : exchanges[v] <= 1)
            => /\ accessToken' = got[p].access_token
               /\ globalState'.spotifyAccessToken = got[p].access_token
               /\ tokenExpiresAt' = got[p].at + got[p].expires_in * MsPerSecond
               /\ globalState'.spotifyTokenExpiresAt = tokenExpiresAt']_vars

\* C6 (amended): when completeAuthentication finishes after a successful
\* exchange and no other token response was stored since its own, the
\* credential in memory and in storage is the one of its response, the expiry
\* being the instant the response was stored plus expires_in seconds.
C6_CredentialIsLastResponse ==
    [][\A p \in Procs :
         (CompleteReturn(p) /\ lastWriter = p)
            => /\ accessToken' = got[p].access_token
               /\ globalState'.spotifyAccessToken = got[p].access_token
               /\ tokenExpiresAt' = got[p].at + got[p].expires_in * MsPerSecond
               /\ globalState'.spotifyTokenExpiresAt = tokenExpiresAt']_vars

\* C6 witness: a completion has just finished and the credential of its
\* response, expiring in the future, is stored.
C6_Witness ==
    /\ notified = {SuccessMsg}
    /\ lastWriter # 0
    /\ accessToken = lastWriter
    /\ globalState.spotifyAccessToken = accessToken
    /\ tokenExpiresAt > now
    /\ globalState.spotifyTokenExpiresAt = tokenExpiresAt

\* A step in which poll q starts: getCurrentTrack is called by the timer
\* callback or by the webview message handler.
PollStarts(q) == TimerTick(q) \/ WebviewGetCurrentTrack(q)

ShortCircuit(headline) ==
    [snapshot |-> headline, requested |-> FALSE, bearer |-> NoToken, post |-> "posted",
     answer |-> NoAnswer]

\* C7: a poll made when an expiry is recorded and the current time is at or
\* after it returns the 'Token expired' snapshot and issues no request, with or
\* without an access token.
C7_ExpiredPollMakesNoRequest ==
    [][\A q \in PollIds :
         (PollStarts(q) /\ tokenExpiresAt # NoExpiry /\ now >= tokenExpiresAt)
            => /\ polled' = ShortCircuit("Token expired")
               /\ poll'[q] = "end"]_vars

\* C7 witness: a poll has just returned 'Token expired' at the very instant of
\* expiry of a token that is held.
C7_Witness ==
    /\ polled = ShortCircuit("Token expired")
    /\ accessToken # NoToken
    /\ now = tokenExpiresAt

\* C8 (as claimed): a poll made when no expiry is recorded returns the 'Token
\* expired' snapshot and issues no request.
C8_NoExpiryMeansExpired ==
    [][\A q \in PollIds :
         (PollStarts(q) /\ tokenExpiresAt = NoExpiry)
            => /\ polled' = ShortCircuit("Token expired")
               /\ poll'[q] = "end"]_vars

\* C8 (amended): a poll made when no expiry is recorded returns the 'Not
\* authenticated' snapshot without a request when no access token is present,
\* and issues the currently-playing request when one is present.
C8_NoExpiryFallsToTokenRule ==
    [][\A q \in PollIds :
         (PollStarts(q) /\ tokenExpiresAt = NoExpiry)
            => IF accessToken = NoToken
               THEN polled' = ShortCircuit("Not authenticated") /\ poll'[q] = "end"
               ELSE polled'.requested /\ poll'[q] = "req"]_vars

\* C8 witness: a request has just been issued with a token that has no expiry
\* (activation from storage holding the token but not yet its expiry).
C8_Witness ==
    /\ polled.requested
    /\ tokenExpiresAt = NoExpiry
    /\ accessToken # NoToken
    /\ restarts > 0

\* C9: a poll made when an expiry is recorded and not yet reached but no access
\* token is present returns 'Not authenticated' without a request; with the
\* expiry passed and no token it returns 'Token expired'.
C9_ExpiryRuleBeforeTokenRule ==
    [][\A q \in PollIds :
         (PollStarts(q) /\ tokenExpiresAt # NoExpiry /\ accessToken = NoToken)
            => /\ poll'[q] = "end"
               /\ polled' = IF now < tokenExpiresAt
                            THEN ShortCircuit("Not authenticated")
                            ELSE ShortCircuit("Token expired")]_vars

\* C9 witness: a poll has just returned 'Not authenticated' while an expiry in
\* the future is recorded.
C9_Witness ==
    /\ polled = ShortCircuit("Not authenticated")
    /\ tokenExpiresAt # NoExpiry
    /\ now < tokenExpiresAt
    /\ accessToken = NoToken

\* C10 (as claimed): the result of a poll that was in flight when the panel was
\* disposed is dropped; no null panel handle is dereferenced.
C10_ResultDroppedAfterDispose == polled.post # "TypeError"

\* C11: once the dispose callback of the panel has run (hide command or the
\* user closing the panel) the interval is cleared: while no panel is shown no
\* interval is scheduled and the handle is null, so no timer tick starts a
\* currently-playing request until the widget is shown again.
C11_DisposeStopsTimer ==
    [][/\ (HideCommand \/ PanelClosed) => (~spotifyPanel' /\ timers' = 0 /\ ~updateInterval')
       /\ ~spotifyPanel' => (timers' = 0 /\ ~updateInterval')
       /\ \A q \in PollIds : (TimerTick(q) /\ poll'[q] = "req") => spotifyPanel]_vars

\* C11 witness: the panel was shown, polled, and has been disposed; no interval
\* is left.
C11_Witness ==
    /\ ~autoShow
    /\ ~spotifyPanel
    /\ timers = 0
    /\ ~updateInterval
    /\ \E q \in PollIds : poll[q] = "end"

\* The snapshots getCurrentTrack returns once the request has settled.
Headlines == {"track", "No track playing", "Authentication expired", "Connecting..."}

\* C12: getCurrentTrack never rejects: whatever the request ends with (any
\* status, any body, a transport error, the 5-second timeout) the poll resolves
\* with a snapshot that its caller goes on to post, and a timeout resolves with
\* 'Connecting...'.
C12_GetCurrentTrackNeverRejects ==
    polled.answer # NoAnswer
        => /\ polled.snapshot \in Headlines
           /\ polled.post # "none"
           /\ polled.answer.outcome = "timeout" => polled.snapshot = "Connecting..."
           /\ polled.answer.body = <<"malformed item">> /\ polled.answer.status = "200"
                => polled.snapshot = "Connecting..."

\* C12 witness: a request has just timed out and the 'Connecting...' snapshot
\* was posted to the panel.
C12_Witness ==
    /\ polled.answer.outcome = "timeout"
    /\ polled.snapshot = "Connecting..."
    /\ polled.post = "posted"

\* C13 (as claimed): a failed request gives 'Authentication expired' exactly
\* when the provider answered with status 401, and 'Connecting...' for every
\* other failure, whatever the body holds.
C13_ExpiredExactlyOn401 ==
    polled.answer # NoAnswer
        => (polled.snapshot = "Authentication expired" <=> polled.answer.status = "401")

\* C14 (as claimed): no poll raises an error notification; its only effect is
\* the snapshot sent to the display.
C14_NoErrorNotificationOnPoll == polled # NoPoll => notified = {}

\* C15: a 204 answer, a 200 answer whose payload is null and a 200 answer with
\* no track item give the 'No track playing' snapshot, posted to the display,
\* with no error notification.
C15_NoContentIsNoTrack ==
    (\/ polled.answer.status = "204"
     \/ polled.answer.status = "200" /\ polled.answer.body \in {<<"null">>, <<"no item">>})
        => /\ polled.snapshot = "No track playing"
           /\ polled.post # "none"
           /\ notified = {}

\* C15 witness: a 204 answer has just been turned into 'No track playing'.
C15_Witness ==
    /\ polled.answer.status = "204"
    /\ polled.snapshot = "No track playing"
    /\ polled.post = "posted"
    /\ notified = {}

\* C16 (as claimed): with no client identifier configured the authenticate
\* command reports the configuration failure and starts nothing: no verifier is
\* generated or stored and the invocation ends there.
C16_NoClientIdBlocksAuthentication ==
    [][\A a \in AuthIds :
         (AuthStart(a) /\ config = NoClientId)
            => /\ notified' # {}
               /\ pc'[a] = "end"
               /\ ver'[a] = NoVerifier
               /\ pendingCodeVerifier' = pendingCodeVerifier
               /\ globalState' = globalState]_vars

\* C16 (amended): with no client identifier configured the authenticate command
\* takes the identifier built into the extension and starts authentication as
\* with a configured one: the verifier is generated and stored in memory and in
\* storage, no failure is reported and the invocation goes on to its prompt.
C16_NoClientIdUsesBuiltIn ==
    [][\A a \in AuthIds :
         (AuthStart(a) /\ config = NoClientId)
            => /\ clientId'[a] = DefaultClientId
               /\ notified' = {}
               /\ pc'[a] = "msg"
               /\ ver'[a] = a
               /\ pendingCodeVerifier' = a
               /\ globalState'.pendingCodeVerifier = a]_vars

\* C16 witness: a token exchange is in flight with the built-in identifier, for
\* a code pasted into an invocation made with nothing configured.
C16_Witness ==
    /\ config = NoClientId
    /\ \E a \in AuthIds :
          /\ pc[a] = "exch"
          /\ clientId[a] = DefaultClientId
          /\ exchanges[ver[a]] > 0

\* The verifier generated by the latest authenticate command.
LastInitiated ==
    CHOOSE a \in AuthIds : pc[a] # "idle" /\ \A b \in AuthIds : pc[b] # "idle" => b <= a

\* C17 (as claimed): when the host has restarted after an authenticate command
\* and no code has been delivered since that command, a redirect callback
\* carrying a code sends the token exchange with the verifier that command
\* generated, read from storage.
C17_RedirectCompletesAfterRestart ==
    [][\A c \in CbIds : \A code \in Codes :
         (HandleAuthCallback(c, code) /\ awaitingCode = "restarted")
            => /\ pendingCodeVerifier = NoVerifier
               /\ globalState.pendingCodeVerifier = LastInitiated
               /\ pc'[c] = "exch"
               /\ ver'[c] = LastInitiated
               /\ exchanges'[LastInitiated] = exchanges[LastInitiated] + 1]_vars

PollStep(q) ==
    \/ PollStarts(q)
    \/ /\ polled'.answer \in Responses
       /\ \E id \in TrackIds : PollResponse(q, polled'.answer, id)

\* C19: a poll writes no credential: in every outcome (short circuit on local
\* expiry or missing token, any answer including 401, error, timeout) the
\* token and the expiry in memory, the persisted entries and the pending
\* verifier are left as they are, as are the panel and the timer; of the
\* program's state only lastTrackId may change.
C19_PollWritesNoCredential ==
    [][\A q \in PollIds :
         PollStep(q)
            => /\ accessToken' = accessToken
               /\ tokenExpiresAt' = tokenExpiresAt
               /\ globalState' = globalState
               /\ pendingCodeVerifier' = pendingCodeVerifier
               /\ UNCHANGED <<now, ver, clientId, config>>
               /\ UNCHANGED panelVars]_vars

\* C19 witness: a 401 answer has just been turned into 'Authentication
\* expired' and the token that was refused is still held, in memory and in
\* storage.
C19_Witness ==
    /\ polled.answer.status = "401"
    /\ polled.snapshot = "Authentication expired"
    /\ accessToken # NoToken
    /\ globalState.spotifyAccessToken = accessToken
    /\ tokenExpiresAt # NoExpiry

\* C20: sendSpotifyCommand, for each of PlayPause, Next and Previous and
\* whether the key injection succeeds, fails in the shell or fails to start,
\* leaves the credential (in memory and in storage), the pending verifier, the
\* timer, the panel and lastTrackId as they are, and does not raise.
C20_CommandLeavesState ==
    [][\A command \in Commands : \A outcome \in ExecOutcomes :
         SendSpotifyCommand(command, outcome)
            => /\ ~injected'.raised
               /\ accessToken' = accessToken
               /\ tokenExpiresAt' = tokenExpiresAt
               /\ pendingCodeVerifier' = pendingCodeVerifier
               /\ globalState' = globalState
               /\ updateInterval' = updateInterval
               /\ timers' = timers
               /\ spotifyPanel' = spotifyPanel
               /\ lastTrackId' = lastTrackId
               /\ poll' = poll]_vars

\* C20 witness: a key injection has just failed in the shell while a token is
\* held, the timer runs and a poll is in flight.
C20_Witness ==
    /\ injected.result = "logged"
    /\ ~injected.raised
    /\ accessToken # NoToken
    /\ updateInterval
    /\ lastTrackId # NoTrack
    /\ \E q \in PollIds : poll[q] = "req"

\* C21: when the host restarts right after a successful completion has
\* finished, activate restores the token and the expiry that were in memory,
\* and a poll decides as it would have before the restart.
C21_RestartAfterCompletion ==
    [][(Restart /\ notified = {SuccessMsg})
          => /\ accessToken' = accessToken
             /\ tokenExpiresAt' = tokenExpiresAt
             /\ Gate' = Gate]_vars

C25_PersistedPairFromOneExchange ==
    LET token == globalState.spotifyAccessToken
    IN  token # NoToken
            => /\ globalState.spotifyTokenExpiresAt # NoExpiry
               /\ got[token].access_token = token
                     => globalState.spotifyTokenExpiresAt
                            = NewExpiry(got[token].at, got[token].expires_in)

\* C26: snapshots are posted in the order their polls were started: while the
\* request of the first poll is outstanding, a snapshot posted in the last step
\* is that of a later poll, and the first poll's snapshot is not posted after it.
C26_SnapshotsPostedInStartOrder ==
    [][\A r \in Responses, id \in TrackIds :
          (PollResponse(1, r, id) /\ polled.post = "posted")
              => polled'.post # "posted"]_vars

\* What the claim says of the snapshot for a body d with an item: the artist
\* names in order with ', ' between them, the first image's url or the empty
\* string, the provider's progress and duration or 0, and no error flag.
RECURSIVE JoinedNames(_)
JoinedNames(names) ==
    IF Len(names) = 0 THEN <<>>
    ELSE IF Len(names) = 1 THEN names[1].name
    ELSE names[1].name \o <<",", " ">> \o JoinedNames(Tail(names))

Mapped(d, info) ==
    LET item == d.item[1]
        names == IF item.artists = Absent THEN <<>> ELSE item.artists[1]
        images == IF item.album = Absent THEN <<>>
                  ELSE IF item.album[1].images = Absent THEN <<>>
                  ELSE item.album[1].images[1]
    IN  /\ info.artist = JoinedNames(names)
        /\ info.albumArt = IF images = <<>> THEN "" ELSE images[1].url
        /\ info.progress = IF d.progress_ms = Absent THEN 0 ELSE d.progress_ms[1]
        /\ info.duration = IF item.duration_ms = Absent THEN 0 ELSE item.duration_ms[1]
        /\ ~info.error

\* The item of d carries an artists list and an album with an images list.
WellFormed(d) ==
    /\ d.item # Absent
    /\ d.item[1].artists # Absent
    /\ d.item[1].album # Absent
    /\ d.item[1].album[1].images # Absent

\* C22 (as claimed): for every 200 body that has a track item, the snapshot
\* returned has the artist names joined with ', ', the first image url or '',
\* progress and duration or 0, and no error flag.
C22_EveryItemMapped ==
    (trackInfo.returned /\ data.item # Absent) => Mapped(data, trackInfo.value)

\* C22 (amended): for every 200 body whose track item carries an artists list
\* and an album with an images list, the snapshot returned has the artist names
\* joined in order with ', ' (A and B give 'A, B'), the first image url or '',
\* progress and duration or 0, no error flag, and no notification is shown;
\* for a body whose item lacks one of these, the snapshot is 'Connecting...'
\* with the error flag.
C22_WellFormedItemMapped ==
    trackInfo.returned =>
        /\ WellFormed(data) =>
              /\ Mapped(data, trackInfo.value)
              /\ trackInfo.notify = {}
              /\ data.item[1].artists = Some(<<[name |-> <<"A">>], [name |-> <<"B">>]>>)
                    => trackInfo.value.artist = <<"A", ",", " ", "B">>
        /\ (data.item # Absent /\ ~WellFormed(data)) =>
              /\ trackInfo.value.artist = <<"Connecting...">>
              /\ trackInfo.value.error

\* C22 witness: a body with the artists A and B, an album without images and no
\* progress has been mapped to 'A, B', '' and 0.
C22_Witness ==
    /\ trackInfo.returned
    /\ WellFormed(data)
    /\ Len(data.item[1].artists[1]) = 2
    /\ data.item[1].album[1].images = Some(<<>>)
    /\ data.progress_ms = Absent
    /\ trackInfo.value.artist = <<"A", ",", " ", "B">>
    /\ trackInfo.value.albumArt = ""
    /\ trackInfo.value.progress = 0
    /\ ~trackInfo.value.error

\* The base64url alphabet of RFC 4648, section 5, by sextet value plus one.
Base64UrlChars ==
    <<"A", "B", "C", "D", "E", "F", "G", "H", "I", "J", "K", "L", "M",
      "N", "O", "P", "Q", "R", "S", "T", "U", "V", "W", "X", "Y", "Z",
      "a", "b", "c", "d", "e", "f", "g", "h", "i", "j", "k", "l", "m",
      "n", "o", "p", "q", "r", "s", "t", "u", "v", "w", "x", "y", "z",
      "0", "1", "2", "3", "4", "5", "6", "7", "8", "9", "-", "_">>

\* The reference: base64url without padding, computed over the bits of the
\* bytes.  The bits are taken six at a time, the last group filled with zeros,
\* and each group is written with the character of its value.
Base64UrlNoPadding(bytes) ==
    LET bit(i) == IF i > 8 * Len(bytes) THEN 0
                  ELSE (bytes[((i - 1) \div 8) + 1] \div (2 ^ (7 - ((i - 1) % 8)))) % 2
        group(k) == 32 * bit(6 * k - 5) + 16 * bit(6 * k - 4) + 8 * bit(6 * k - 3)
                        + 4 * bit(6 * k - 2) + 2 * bit(6 * k - 1) + bit(6 * k)
    IN  [k \in 1..((8 * Len(bytes) + 5) \div 6) |-> Base64UrlChars[group(k) + 1]]

====
